---- MODULE Spec2Model ----
(***************************************************************************)
(* Model of the narrated-explanation playback / interruption state machine *)
(* of BookX (frontend/app/components/ReadingExplanation.js, request /      *)
(* response variant) and of the push-to-talk capture unit                  *)
(* (components/PushToTalk, MicSpeakingUI.js), of the streaming variant of  *)
(* ReadingExplanation, of the explain page (app/pdf/[id]/explain/page.js), *)
(* of the upload form (components/PDFUpload.js), of the chat page          *)
(* (app/pdf/[id]/chat/page.js), of the quiz (components/QuizComponent.js)  *)
(* and of the speech components LiveExplanation and LiveReading.           *)
(*                                                                         *)
(* The browser runs one handler at a time (single-threaded event loop), so *)
(* every action below is one handler, or the part of an async function     *)
(* between two awaits.  React state set by a handler is taken as committed *)
(* when the handler returns.                                               *)
(***************************************************************************)
EXTENDS Integers, Sequences, FiniteSets, TLC

\* ---- bounds of the model ------------------------------------------------
\* Q&A exchanges alive at once (an exchange is alive from the press of the
\* ask button until its answer has ended or it has failed); a finished
\* exchange leaves its slot to the next press
MaxExchanges == 2
\* length of the main audio, in position ticks (at least 2)
MaxPos == 2
\* media events (play / pause / ended) queued and not yet dispatched
MaxEvq == 1
\* blocks of samples delivered by the script processor during one capture
MaxChunks == 2
\* invocations of one push-to-talk handler suspended at an await at once
MaxCalls == 1
\* payloads handed to onSend after one press of the push-to-talk button
MaxSent == 2
\* WebSocket connections of the streaming component alive at once
MaxSockets == 2
\* audio chunks the streaming component buffers
MaxStream == 2
\* decode-and-play calls of the streaming component alive at once
MaxPlays == 2
\* distinct audio_url values of the generated content
MaxUrls == 2
\* distinct values of the section parameters of the explain page's URL
MaxSections == 2
\* generation requests the explain page issues
MaxRequests == 4
\* uploads of the upload form in flight at once
MaxUploads == 2
\* content requests the chat page issues
MaxContentRequests == 3
\* distinct topics of the document's index
MaxTopics == 2
\* questions of a quiz
MaxQuestions == 2
\* seconds the clock of the quiz component runs
MaxNow == 3
\* sentences of a content given to LiveExplanation or LiveReading
MaxSentences == 2

Ids == 1..MaxExchanges

VARIABLES
  main,                \* the <audio> element: [paused, ended, currentTime]
  evq,                 \* media events fired by the element, not yet dispatched
  isPlayingMain,       \* useState, ReadingExplanation.js:16
  mainAudioPosition,   \* useState, ReadingExplanation.js:17
  isRecording,         \* useState, ReadingExplanation.js:22
  isTutorResponding,   \* useState, ReadingExplanation.js:25
  isPlayingQA,         \* useState, ReadingExplanation.js:26
  shouldResumeAfterQA, \* useRef,   ReadingExplanation.js:27
  isPlayingQARef,      \* useRef,   ReadingExplanation.js:28
  mediaRecorderRef,    \* useRef,   ReadingExplanation.js:31 (0 = null, else the exchange owning the recorder)
  audioContextRef,     \* useRef,   ReadingExplanation.js:35 (0 = null, else the exchange owning the context)
  btnDown,             \* the ask button is physically held
  ex,                  \* per exchange: the closure state of startRecording / onstop / playQAAudioFromBase64
  last,                \* history: which of the handlers the properties are about ran last
  impl,                \* the push-to-talk component mounted: "PushToTalk" or "MicSpeakingUI"
  connected,           \* prop connected
  recording,           \* useState recording, PushToTalk:6 (prop isRecording of MicSpeakingUI)
  held,                \* the push-to-talk button is physically held
  starts,              \* invocations of startRecording awaiting getUserMedia
  graph,               \* ctxRef / srcRef / procRef: "none", "open" (processor connected) or "closed"
  buffersRef,          \* useRef buffersRef, PushToTalk:12: the blocks captured
  stops,               \* invocations of stopRecording suspended at an await: [pc, merged]
  sent,                \* payloads handed to onSend since the last press: [merged, payload]
  warned,              \* the last notice handed to onWarn ("none" if none)
  hasContent,          \* streaming variant: prop generatedContent?.content is set
  hasTopic,            \* streaming variant: prop topic is set
  audioUrl,            \* streaming variant: prop generatedContent?.audio_url (0 = none)
  firstContent,        \* generatedContent?.content as captured by connectWebSocket (first render)
  isInteractiveMode,   \* useState, part_004:17
  isConnected,         \* useState, part_004:18
  isStreamingAudio,    \* useState, part_004:29
  audioChunks,         \* useState, part_004:30
  isPlayingAudio,      \* useState, part_004:31
  wsRef,               \* useRef,   part_004:35 (0 = null or a socket that is closed, else the socket)
  streamContextRef,    \* useRef audioContextRef, part_004:38 (0 = null, else the play call owning it)
  streamSourceRef,     \* useRef audioSourceRef,  part_004:40 (0 = null, else the play call owning it)
  sockets,             \* the WebSockets created: [state, autoStart, startMsgs]
  plays,               \* the calls of playExistingAudio / playAccumulatedAudio: [pc, url, bytes, ctxClosed, orphan]
  section,             \* explain page: start_page / end_page / topic of the URL, as one value
  pdf,                 \* useState, explain/page.js:11 (FALSE = null)
  isLoading,           \* useState, explain/page.js:12
  error,               \* useState, explain/page.js:13 ("none" = null)
  generatedContent,    \* useState, explain/page.js:14 (0 = null, else the section explained)
  isGenerating,        \* useState, explain/page.js:15
  generatingRef,       \* useRef,   explain/page.js:16
  request,             \* the generation request in flight (0 = none, else its section)
  requests,            \* generation requests issued so far
  isUploading,         \* useState, PDFUpload.js:8
  uploadProgress,      \* useState, PDFUpload.js:9
  uploadError,         \* useState error, PDFUpload.js:10 ("none" = null)
  success,             \* useState, PDFUpload.js:11 (FALSE = null)
  uploads,             \* the calls of uploadFile: [pc, file]
  clearTimers,         \* pending 3 s timers of uploadFile's finally
  chatGeneratedContent, \* useState generatedContent, chat/page.js:23 (0 = null, else the request or note it came from)
  contentType,         \* useState, chat/page.js:25 ("none" = null)
  currentTopic,        \* useState, chat/page.js:26 (0 = '')
  chatIsGenerating,    \* useState isGenerating, chat/page.js:24
  chatError,           \* useState error, chat/page.js:19 ("none" = null)
  activeTab,           \* useState, chat/page.js:20
  pending,             \* the content requests in flight: [n, type, topic]
  latest,              \* history: the content request issued last, or the note played since ([n |-> 0])
  issued,              \* content requests issued so far
  currentQuiz,         \* the number of questions of the quiz being taken, 0 for none
  currentQuestionIndex, \* the index of the question shown
  showExplanation,     \* the question shown has been answered
  quizResults,         \* the question_index of the recorded answers, in order
  quizIsSubmitting,    \* isSubmitting of the quiz
  quizError,           \* error of the quiz component is set
  quizCompleted,       \* the results view is shown
  startTime,           \* Date.now() at startQuiz, 0 for null
  completionTime,      \* the completionTime state
  now,                 \* the clock read by Date.now()
  submitted,           \* the body of the last submit request, with the clock when it was sent
  submitPending,       \* the submit request is in flight
  component,           \* which of LiveExplanation and LiveReading is mounted
  isReading,           \* the isReading prop (isExplaining in LiveExplanation)
  sentences,           \* the number of sentences in the sentence list
  currentSentenceIndex, \* the index of the sentence being spoken
  isPaused,            \* isPaused of LiveReading
  utterances,          \* the utterances spoken whose end or error event is still to come
  mounted              \* ReadingExplanation is mounted (its cleanup effect has not run)

\* the state of ReadingExplanation
readingVars == <<main, evq, isPlayingMain, mainAudioPosition, isRecording,
                 isTutorResponding, isPlayingQA, shouldResumeAfterQA,
                 isPlayingQARef, mediaRecorderRef, audioContextRef, btnDown,
                 ex, last>>

\* the state of the push-to-talk component
pttVars == <<impl, connected, recording, held, starts, graph, buffersRef,
             stops, sent, warned>>

\* the state of the streaming variant of ReadingExplanation
streamVars == <<hasContent, hasTopic, audioUrl, firstContent,
                isInteractiveMode, isConnected, isStreamingAudio, audioChunks,
                isPlayingAudio, wsRef, streamContextRef, streamSourceRef,
                sockets, plays>>

\* the state of the explain page
pageVars == <<section, pdf, isLoading, error, generatedContent, isGenerating,
              generatingRef, request, requests>>

\* the state of the upload form
uploadVars == <<isUploading, uploadProgress, uploadError, success, uploads,
                clearTimers>>

\* the state of the chat page
chatVars == <<chatGeneratedContent, contentType, currentTopic,
              chatIsGenerating, chatError, activeTab, pending,
              latest, issued>>

\* the state of the quiz component, the clock and its last submit request
quizVars == <<currentQuiz, currentQuestionIndex, showExplanation, quizResults,
              quizIsSubmitting, quizError, quizCompleted,
              startTime, completionTime, now, submitted,
              submitPending>>

\* the state of the sentence-by-sentence speech components
liveVars == <<component, isReading, sentences, currentSentenceIndex, isPaused,
              utterances>>

vars == <<readingVars, pttVars, streamVars, pageVars, uploadVars,
          chatVars, quizVars, liveVars, mounted>>

\* what the handlers of one component leave alone
notReading == <<pttVars, streamVars, pageVars, uploadVars, chatVars, quizVars,
                liveVars, mounted>>
notCapture == <<readingVars, streamVars, pageVars, uploadVars, chatVars,
                quizVars, liveVars, mounted>>
notStream == <<readingVars, pttVars, pageVars, uploadVars, chatVars, quizVars,
               liveVars, mounted>>
notPage == <<readingVars, pttVars, streamVars, uploadVars, chatVars,
             quizVars, liveVars, mounted>>
notUpload == <<readingVars, pttVars, streamVars, pageVars, chatVars, quizVars,
               liveVars, mounted>>
notChat == <<readingVars, pttVars, streamVars, pageVars, uploadVars,
             quizVars, liveVars, mounted>>
notQuiz == <<readingVars, pttVars, streamVars, pageVars, uploadVars,
             chatVars, liveVars, mounted>>
notLive == <<readingVars, pttVars, streamVars, pageVars, uploadVars,
             chatVars, quizVars, mounted>>

\* ---- the HTML5 audio element ---------------------------------------------
\* the element is producing sound
Audible(m) == ~m.paused /\ ~m.ended

\* HTMLMediaElement.play(): a paused element starts (from 0 if it had ended)
originalPlay(m) ==
  IF m.paused
    THEN [paused |-> FALSE, ended |-> FALSE,
          currentTime |-> IF m.ended THEN 0 ELSE m.currentTime]
    ELSE m

\* the wrapper installed over audioRef.current.play: rejects while the
\* Q&A ref is set, otherwise calls the original play
play(m, qaRef) == IF qaRef THEN m ELSE originalPlay(m)

\* a pause that would lose the position
pause_rewinds(m) == [m EXCEPT !.paused = TRUE, !.currentTime = 0]

\* HTMLMediaElement.pause(): position is kept
pause(m) == [m EXCEPT !.paused = TRUE]

\* the media events a call leaves behind: "play" when a paused element was
\* started, "pause" when a playing one was paused
EventsOf(m, m2, q) ==
  IF m.paused /\ ~m2.paused THEN Append(q, "play")
  ELSE IF ~m.paused /\ m2.paused THEN Append(q, "pause")
  ELSE q

NoExchange ==
  [stage |-> "idle", hasEnded |-> FALSE, duplicate |-> FALSE, timers |-> 0,
   stale |-> 0, streamOpen |-> FALSE, completions |-> 0, resumePlays |-> 0,
   ask |-> "none", posAtAsk |-> 0]

\* ReadingExplanation after its first render, nothing loaded or played
ReadingInit ==
  /\ main = [paused |-> TRUE, ended |-> FALSE, currentTime |-> 0]
  /\ evq = <<>>
  /\ isPlayingMain = FALSE
  /\ mainAudioPosition = 0
  /\ isRecording = FALSE
  /\ isTutorResponding = FALSE
  /\ isPlayingQA = FALSE
  /\ shouldResumeAfterQA = FALSE
  /\ isPlayingQARef = FALSE
  /\ mediaRecorderRef = 0
  /\ audioContextRef = 0
  /\ btnDown = FALSE
  /\ ex = [e \in Ids |-> NoExchange]
  /\ last = "init"
  /\ mounted = TRUE

\* the push-to-talk component after its first render
CaptureIdle ==
  /\ recording = FALSE
  /\ held = FALSE
  /\ starts = 0
  /\ graph = "none"
  /\ buffersRef = <<>>
  /\ stops = <<>>
  /\ sent = <<>>
  /\ warned = "none"

\* a WebSocket slot not in use
NoSocket == [state |-> "none", autoStart |-> 0, startMsgs |-> 0]

\* a play call slot not in use
NoPlay == [pc |-> "free", url |-> 0, bytes |-> <<>>, ctxClosed |-> FALSE,
           orphan |-> FALSE]

\* the streaming component after its first render, given no content, no
\* topic and no audio_url
StreamIdle ==
  /\ hasContent = FALSE
  /\ hasTopic = FALSE
  /\ audioUrl = 0
  /\ firstContent = FALSE
  /\ isInteractiveMode = FALSE
  /\ isConnected = FALSE
  /\ isStreamingAudio = FALSE
  /\ audioChunks = <<>>
  /\ isPlayingAudio = FALSE
  /\ wsRef = 0
  /\ streamContextRef = 0
  /\ streamSourceRef = 0
  /\ sockets = [i \in 1..MaxSockets |-> NoSocket]
  /\ plays = [i \in 1..MaxPlays |-> NoPlay]

\* the explain page after its mount: fetchPDFDetails is in flight
PageInit ==
  /\ section = 1
  /\ pdf = FALSE
  /\ isLoading = TRUE
  /\ error = "none"
  /\ generatedContent = 0
  /\ isGenerating = FALSE
  /\ generatingRef = FALSE
  /\ request = 0
  /\ requests = 0

\* no call of uploadFile
NoUpload == [pc |-> "free", file |-> [type |-> "none", size |-> 0]]

\* the upload form after its mount
UploadInit ==
  /\ isUploading = FALSE
  /\ uploadProgress = 0
  /\ uploadError = "none"
  /\ success = FALSE
  /\ uploads = [u \in 1..MaxUploads |-> NoUpload]
  /\ clearTimers = 0

\* the chat page once the PDF details are there
ChatInit ==
  /\ chatGeneratedContent = 0
  /\ contentType = "none"
  /\ currentTopic = 0
  /\ chatIsGenerating = FALSE
  /\ chatError = "none"
  /\ activeTab = "index-content"
  /\ pending = {}
  /\ latest = [n |-> 0, type |-> "none", topic |-> 0]
  /\ issued = 0

\* milliseconds in a second: Date.now() counts milliseconds, the quiz reports
\* seconds
Second == 1000

\* no request body has been sent
NoSubmission == [results |-> <<>>, completion_time |-> 0, sentAt |-> 0,
                 started |-> 0, questions |-> 0]

\* the quiz component once the list of quizzes is loaded, no quiz started
QuizInit ==
  /\ currentQuiz = 0
  /\ currentQuestionIndex = 0
  /\ showExplanation = FALSE
  /\ quizResults = <<>>
  /\ quizIsSubmitting = FALSE
  /\ quizError = FALSE
  /\ quizCompleted = FALSE
  /\ startTime = 0
  /\ completionTime = 0
  /\ now = Second
  /\ submitted = NoSubmission
  /\ submitPending = FALSE

\* LiveExplanation or LiveReading after its mount without content
LiveIdle ==
  /\ isReading = FALSE
  /\ sentences = 0
  /\ currentSentenceIndex = 0
  /\ isPaused = FALSE
  /\ utterances = {}

LiveInit ==
  /\ component = "LiveReading"
  /\ LiveIdle

Init ==
  /\ ReadingInit
  /\ impl = "PushToTalk"
  /\ connected = TRUE
  /\ CaptureIdle
  /\ StreamIdle
  /\ PageInit
  /\ UploadInit
  /\ ChatInit
  /\ QuizInit
  /\ LiveInit

\* history: ex[e].ask is what the main audio was doing when the ask button
\* went down for e, kept for as long as the user does nothing else and the
\* exchange does not fail ("none" afterwards)
Disturbed(x) == [e \in Ids |-> [x[e] EXCEPT !.ask = "none", !.posAtAsk = 0]]

\* the displayed position after a timeupdate event
handleAudioTimeUpdate(m) == m.currentTime

\* ---- main audio: playback and its events ----------------------------------
\* playback advances the position and the element reports it with
\* timeupdate; on reaching the end the element pauses itself and fires pause
\* and ended (handleAudioPause and handleAudioEnded both only set
\* isPlayingMain to false: the pair is queued as one "pause")
Tick ==
  /\ Audible(main)
  /\ LET t == main.currentTime + 1
         m2 == IF t = MaxPos
                 THEN [paused |-> TRUE, ended |-> TRUE, currentTime |-> t]
                 ELSE [main EXCEPT !.currentTime = t]
     IN /\ Len(EventsOf(main, m2, evq)) <= MaxEvq
        /\ main' = m2
        /\ evq' = EventsOf(main, m2, evq)
        /\ mainAudioPosition' = handleAudioTimeUpdate(m2)
  /\ UNCHANGED notReading
  /\ last' = "other"
  /\ UNCHANGED <<isPlayingMain, isRecording, isTutorResponding, isPlayingQA,
                 shouldResumeAfterQA, isPlayingQARef, mediaRecorderRef,
                 audioContextRef, btnDown, ex>>

\* a handler leaves the element as m2: the events it fired are queued and the
\* timeupdate that follows a change of position is dispatched
MainBecomes(m2) ==
  /\ Len(EventsOf(main, m2, evq)) <= MaxEvq
  /\ main' = m2
  /\ evq' = EventsOf(main, m2, evq)
  /\ mainAudioPosition' = handleAudioTimeUpdate(m2)

\* dispatch of a "play" event: onPlayCapture, then onPlay = handleAudioPlay.
\* While isPlayingQA both pause the element and isPlayingMain is not set.
handleAudioPlay ==
  /\ evq # <<>> /\ Head(evq) = "play"
  /\ IF isPlayingQA
       THEN /\ main' = pause(main)
            /\ evq' = EventsOf(main, pause(main), Tail(evq))
            /\ mainAudioPosition' = handleAudioTimeUpdate(pause(main))
            /\ UNCHANGED isPlayingMain
       ELSE /\ isPlayingMain' = TRUE
            /\ evq' = Tail(evq)
            /\ UNCHANGED <<main, mainAudioPosition>>
  /\ UNCHANGED notReading
  /\ last' = "playEvent"
  /\ UNCHANGED <<isRecording, isTutorResponding, isPlayingQA,
                 shouldResumeAfterQA, isPlayingQARef, mediaRecorderRef,
                 audioContextRef, btnDown, ex>>

\* dispatch of "pause" (handleAudioPause; handleAudioEnded does the same)
handleAudioPause ==
  /\ evq # <<>> /\ Head(evq) = "pause"
  /\ isPlayingMain' = FALSE
  /\ evq' = Tail(evq)
  /\ UNCHANGED notReading
  /\ last' = "other"
  /\ UNCHANGED <<main, mainAudioPosition, isRecording, isTutorResponding,
                 isPlayingQA, shouldResumeAfterQA, isPlayingQARef,
                 mediaRecorderRef, audioContextRef, btnDown, ex>>

\* ---- main audio: user controls --------------------------------------------
togglePlayPause ==
  /\ IF isPlayingQA
       THEN UNCHANGED <<main, evq, mainAudioPosition>>
       ELSE MainBecomes(IF isPlayingMain THEN pause(main)
                        ELSE play(main, isPlayingQARef))
  /\ ex' = Disturbed(ex)
  /\ UNCHANGED notReading
  /\ last' = IF isPlayingMain THEN "togglePause" ELSE "togglePlay"
  /\ UNCHANGED <<isPlayingMain, isRecording, isTutorResponding, isPlayingQA,
                 shouldResumeAfterQA, isPlayingQARef, mediaRecorderRef,
                 audioContextRef, btnDown>>

\* position written by stopAudio
StopPosition(m) == 0

stopAudio ==
  /\ LET m2 == [pause(main) EXCEPT !.currentTime = StopPosition(main),
                                   !.ended = FALSE]
     IN /\ Len(EventsOf(main, m2, evq)) <= MaxEvq
        /\ main' = m2
        /\ evq' = EventsOf(main, m2, evq)
        /\ mainAudioPosition' = StopPosition(main)
  /\ ex' = Disturbed(ex)
  /\ UNCHANGED notReading
  /\ last' = "stop"
  /\ UNCHANGED <<isPlayingMain, isRecording, isTutorResponding, isPlayingQA,
                 shouldResumeAfterQA, isPlayingQARef, mediaRecorderRef,
                 audioContextRef, btnDown>>

\* play started outside the component (media key, browser media controls):
\* the element starts without passing through the wrapper
NativePlay ==
  /\ main.paused
  /\ MainBecomes(originalPlay(main))
  /\ ex' = Disturbed(ex)
  /\ UNCHANGED notReading
  /\ last' = "other"
  /\ UNCHANGED <<isPlayingMain, isRecording, isTutorResponding, isPlayingQA,
                 shouldResumeAfterQA, isPlayingQARef, mediaRecorderRef,
                 audioContextRef, btnDown>>

\* ---- hold to ask: capture ---------------------------------------------------
\* what the main audio was doing when the ask button went down (history)
AskState ==
  IF isPlayingMain /\ Audible(main) THEN "playing"
  ELSE IF ~isPlayingMain /\ main.paused THEN "paused"
  ELSE "changing"

\* an exchange that is over: its slot can hold the next one.  A slot is not
\* taken again while it still holds stale timers.
Over(x) == x.stage \in {"idle", "denied", "failed", "done"} /\ x.stale = 0

\* history: the resume timers pending when the ask button goes down again
\* stay pending; they are stale from then on
Superseded(x) ==
  [e \in Ids |-> [x[e] EXCEPT !.stale = @ + x[e].timers, !.timers = 0]]

\* the resume flag after the first lines of startRecording: reset only inside
\* the branch that pauses a playing main audio
FlagAfterPress(playing, flag) == IF playing THEN FALSE ELSE flag

\* mousedown / touchstart on the ask button (disabled while isPlayingQA):
\* startRecording up to its await of getUserMedia.  The stop event of a
\* recorder is taken to be dispatched before the button is pressed again.
startRecording ==
  /\ ~btnDown /\ ~isPlayingQA
  /\ \E e \in Ids : Over(ex[e])
  /\ \A e \in Ids : ex[e].stage # "stopped"
  /\ LET e == CHOOSE e \in Ids :
                Over(ex[e]) /\ \A f \in Ids : Over(ex[f]) => e <= f
     IN ex' = [Superseded(Disturbed(ex)) EXCEPT ![e] =
                 [NoExchange EXCEPT !.stage = "awaitMic",
                                    !.stale = ex[e].timers,
                                    !.ask = AskState,
                                    !.posAtAsk = main.currentTime]]
  /\ MainBecomes(IF isPlayingMain THEN pause(main) ELSE main)
  /\ shouldResumeAfterQA' = FlagAfterPress(isPlayingMain, shouldResumeAfterQA)
  /\ btnDown' = TRUE
  /\ isRecording' = TRUE
  /\ isTutorResponding' = FALSE
  /\ UNCHANGED notReading
  /\ last' = "other"
  /\ UNCHANGED <<isPlayingMain, isPlayingQA, isPlayingQARef, mediaRecorderRef,
                 audioContextRef>>

\* getUserMedia resolves: a recorder is created over the stream and started
MicGranted(e) ==
  /\ ex[e].stage = "awaitMic"
  /\ ex' = [ex EXCEPT ![e].stage = "recording", ![e].streamOpen = TRUE]
  /\ mediaRecorderRef' = e
  /\ UNCHANGED notReading
  /\ last' = "other"
  /\ UNCHANGED <<main, evq, isPlayingMain, mainAudioPosition, isRecording,
                 isTutorResponding, isPlayingQA, shouldResumeAfterQA,
                 isPlayingQARef, audioContextRef, btnDown>>

\* getUserMedia rejects: the catch of startRecording
MicDenied(e) ==
  /\ ex[e].stage = "awaitMic"
  /\ ex' = [ex EXCEPT ![e].stage = "denied"]
  /\ isRecording' = FALSE
  /\ isTutorResponding' = FALSE
  /\ UNCHANGED notReading
  /\ last' = "micDenied"
  /\ UNCHANGED <<main, evq, isPlayingMain, mainAudioPosition, isPlayingQA,
                 shouldResumeAfterQA, isPlayingQARef, mediaRecorderRef,
                 audioContextRef, btnDown>>

\* mouseup / touchend on the ask button: stopRecording.  A disabled button
\* dispatches nothing.
stopRecording ==
  /\ btnDown
  /\ btnDown' = FALSE
  /\ IF ~isPlayingQA /\ mediaRecorderRef # 0
        /\ ex[mediaRecorderRef].stage = "recording"
       THEN /\ ex' = [ex EXCEPT ![mediaRecorderRef].stage = "stopped"]
            /\ isRecording' = FALSE
       ELSE UNCHANGED <<ex, isRecording>>
  /\ UNCHANGED notReading
  /\ last' = "other"
  /\ UNCHANGED <<main, evq, isPlayingMain, mainAudioPosition,
                 isTutorResponding, isPlayingQA, shouldResumeAfterQA,
                 isPlayingQARef, mediaRecorderRef, audioContextRef>>

\* ---- the Q&A exchange -------------------------------------------------------
\* the resume flag as set by sendQARequest when the request is sent
FlagOnSend(flag) == TRUE

\* recorder.onstop: sendQARequest up to its await of the HTTP response
sendQARequest(e) ==
  /\ ex[e].stage = "stopped"
  /\ ex' = [ex EXCEPT ![e].stage = "fetching"]
  /\ isTutorResponding' = TRUE
  /\ isPlayingQA' = TRUE
  /\ isPlayingQARef' = TRUE
  /\ shouldResumeAfterQA' = FlagOnSend(shouldResumeAfterQA)
  /\ UNCHANGED notReading
  /\ last' = "other"
  /\ UNCHANGED <<main, evq, isPlayingMain, mainAudioPosition, isRecording,
                 mediaRecorderRef, audioContextRef, btnDown>>

\* the response is ok and parsed; playQAAudioFromBase64 creates the audio
\* context and runs up to its await of decodeAudioData
QAResponseOk(e) ==
  /\ ex[e].stage = "fetching"
  /\ ex' = [ex EXCEPT ![e].stage = "decoding"]
  /\ isTutorResponding' = FALSE
  /\ audioContextRef' = e
  /\ UNCHANGED notReading
  /\ last' = "other"
  /\ UNCHANGED <<main, evq, isPlayingMain, mainAudioPosition, isRecording,
                 isPlayingQA, shouldResumeAfterQA, isPlayingQARef,
                 mediaRecorderRef, btnDown>>

\* a catch of sendQARequest that leaves the resume flag as it is
FlagOnFailure_keeps(flag) == flag

\* the resume flag as set by the catch of sendQARequest
FlagOnFailure(flag) == FALSE

\* network error or non-OK status: the catch of sendQARequest, then onstop
\* stops the stream's tracks
QAResponseFailed(e) ==
  /\ ex[e].stage = "fetching"
  /\ MainBecomes(IF main.paused THEN play(main, FALSE) ELSE main)
  /\ ex' = [ex EXCEPT ![e].stage = "failed", ![e].streamOpen = FALSE,
                      ![e].ask = "none", ![e].posAtAsk = 0]
  /\ isTutorResponding' = FALSE
  /\ isPlayingQA' = FALSE
  /\ isPlayingQARef' = FALSE
  /\ shouldResumeAfterQA' = FlagOnFailure(shouldResumeAfterQA)
  /\ UNCHANGED notReading
  /\ last' = "other"
  /\ UNCHANGED <<isPlayingMain, isRecording, mediaRecorderRef,
                 audioContextRef, btnDown>>

\* decodeAudioData resolves: the source is created, onended set, start()
\* called; sendQARequest returns and onstop stops the stream's tracks
QADecoded(e) ==
  /\ ex[e].stage = "decoding"
  /\ ex' = [ex EXCEPT ![e].stage = "playing", ![e].streamOpen = FALSE]
  /\ UNCHANGED notReading
  /\ last' = "other"
  /\ UNCHANGED <<main, evq, isPlayingMain, mainAudioPosition, isRecording,
                 isTutorResponding, isPlayingQA, shouldResumeAfterQA,
                 isPlayingQARef, mediaRecorderRef, audioContextRef, btnDown>>

\* decodeAudioData rejects: the catch of playQAAudioFromBase64
QADecodeFailed(e) ==
  /\ ex[e].stage = "decoding"
  /\ LET resume == shouldResumeAfterQA /\ main.paused
     IN /\ MainBecomes(IF resume THEN play(main, FALSE) ELSE main)
        /\ shouldResumeAfterQA' = IF resume THEN FALSE ELSE shouldResumeAfterQA
  /\ ex' = [ex EXCEPT ![e].stage = "failed", ![e].streamOpen = FALSE,
                      ![e].ask = "none", ![e].posAtAsk = 0]
  /\ isPlayingQA' = FALSE
  /\ isPlayingQARef' = FALSE
  /\ UNCHANGED notReading
  /\ last' = "other"
  /\ UNCHANGED <<isPlayingMain, isRecording, isTutorResponding,
                 mediaRecorderRef, audioContextRef, btnDown>>

\* an onended without the hasEnded guard
onendedIgnored_never(hasEnded) == FALSE

\* the hasEnded guard at the top of source.onended
onendedIgnored(hasEnded) == hasEnded

\* the audio engine delivers an end-of-stream notification for the answer
\* source, the first one or a duplicate: source.onended
onended(e) ==
  /\ ex[e].stage \in {"playing", "done"}
  /\ IF onendedIgnored(ex[e].hasEnded)
       THEN /\ ex' = [ex EXCEPT ![e].duplicate = TRUE]
            /\ UNCHANGED <<isPlayingQA, isPlayingQARef>>
       ELSE /\ ex' = [ex EXCEPT ![e].duplicate = (ex[e].stage = "done"),
                                ![e].stage = "done",
                                ![e].hasEnded = TRUE,
                                ![e].completions = @ + 1,
                                ![e].timers = @ + 1]
            /\ isPlayingQA' = FALSE
            /\ isPlayingQARef' = FALSE
  /\ UNCHANGED notReading
  /\ last' = "other"
  /\ UNCHANGED <<main, evq, isPlayingMain, mainAudioPosition, isRecording,
                 isTutorResponding, shouldResumeAfterQA, mediaRecorderRef,
                 audioContextRef, btnDown>>

\* a resume timer that does not look at the element
ResumeWanted_always(m) == TRUE

\* the race-avoidance check of the resume timer: paused and not playing
ResumeWanted(m) == m.paused /\ ~(~m.paused /\ ~m.ended)

\* a 200 ms timer scheduled by onended fires: own = no press of the ask
\* button has followed the answer that scheduled it, otherwise it is stale
ResumeTimer(e, own) ==
  /\ IF own THEN ex[e].timers > 0 ELSE ex[e].stale > 0
  /\ LET fired == IF own THEN [ex EXCEPT ![e].timers = @ - 1]
                  ELSE [ex EXCEPT ![e].stale = @ - 1]
     IN IF shouldResumeAfterQA
          THEN LET go == ResumeWanted(main)
               IN /\ MainBecomes(IF go THEN play(main, isPlayingQARef) ELSE main)
                  /\ ex' = IF go /\ own
                             THEN [fired EXCEPT ![e].resumePlays = @ + 1]
                             ELSE fired
                  /\ shouldResumeAfterQA' = FALSE
          ELSE /\ ex' = fired
               /\ UNCHANGED <<main, evq, mainAudioPosition, shouldResumeAfterQA>>
  /\ UNCHANGED notReading
  /\ last' = IF own THEN "resumeTimer" ELSE "staleTimer"
  /\ UNCHANGED <<isPlayingMain, isRecording, isTutorResponding, isPlayingQA,
                 isPlayingQARef, mediaRecorderRef, audioContextRef, btnDown>>

Next ==
  \/ Tick
  \/ handleAudioPlay
  \/ handleAudioPause
  \/ togglePlayPause
  \/ stopAudio
  \/ NativePlay
  \/ startRecording
  \/ stopRecording
  \/ \E e \in Ids : MicGranted(e)
  \/ \E e \in Ids : MicDenied(e)
  \/ \E e \in Ids : sendQARequest(e)
  \/ \E e \in Ids : QAResponseOk(e)
  \/ \E e \in Ids : QAResponseFailed(e)
  \/ \E e \in Ids : QADecoded(e)
  \/ \E e \in Ids : QADecodeFailed(e)
  \/ \E e \in Ids : onended(e)
  \/ \E e \in Ids : ResumeTimer(e, TRUE)
  \/ \E e \in Ids : ResumeTimer(e, FALSE)

Spec == Init /\ [][Next]_vars

\* the specification restricted to the user actions of the component's own
\* controls (play/pause toggle, stop, ask button) and the asynchronous
\* completions: no play started from outside the component
NextUI ==
  \/ Tick
  \/ handleAudioPlay
  \/ handleAudioPause
  \/ togglePlayPause
  \/ stopAudio
  \/ startRecording
  \/ stopRecording
  \/ \E e \in Ids : MicGranted(e)
  \/ \E e \in Ids : MicDenied(e)
  \/ \E e \in Ids : sendQARequest(e)
  \/ \E e \in Ids : QAResponseOk(e)
  \/ \E e \in Ids : QAResponseFailed(e)
  \/ \E e \in Ids : QADecoded(e)
  \/ \E e \in Ids : QADecodeFailed(e)
  \/ \E e \in Ids : onended(e)
  \/ \E e \in Ids : ResumeTimer(e, TRUE)
  \/ \E e \in Ids : ResumeTimer(e, FALSE)

SpecUI == Init /\ [][NextUI]_vars

\* the component is unmounted: the <audio> element leaves the document, which
\* pauses it, and the cleanup effect closes the audio context audioContextRef
\* holds, which silences the answer source playing on it
Unmount ==
  /\ mounted
  /\ mounted' = FALSE
  /\ main' = pause(main)
  /\ ex' = IF audioContextRef # 0 /\ ex[audioContextRef].stage = "playing"
             THEN [ex EXCEPT ![audioContextRef].stage = "closed"]
             ELSE ex
  /\ last' = "other"
  /\ UNCHANGED <<evq, isPlayingMain, mainAudioPosition, isRecording,
                 isTutorResponding, isPlayingQA, shouldResumeAfterQA,
                 isPlayingQARef, mediaRecorderRef, audioContextRef, btnDown>>
  /\ UNCHANGED <<pttVars, streamVars, pageVars, uploadVars,
                 chatVars,
                 quizVars,
                 liveVars>>

\* the component's life up to its teardown
NextTeardown ==
  \/ mounted /\ Tick
  \/ mounted /\ handleAudioPlay
  \/ mounted /\ handleAudioPause
  \/ mounted /\ togglePlayPause
  \/ mounted /\ stopAudio
  \/ mounted /\ startRecording
  \/ mounted /\ stopRecording
  \/ mounted /\ \E e \in Ids : MicGranted(e)
  \/ mounted /\ \E e \in Ids : MicDenied(e)
  \/ mounted /\ \E e \in Ids : sendQARequest(e)
  \/ mounted /\ \E e \in Ids : QAResponseOk(e)
  \/ mounted /\ \E e \in Ids : QAResponseFailed(e)
  \/ mounted /\ \E e \in Ids : QADecoded(e)
  \/ mounted /\ \E e \in Ids : QADecodeFailed(e)
  \/ mounted /\ \E e \in Ids : onended(e)
  \/ mounted /\ \E e \in Ids : ResumeTimer(e, TRUE)
  \/ mounted /\ \E e \in Ids : ResumeTimer(e, FALSE)
  \/ Unmount

SpecTeardown == Init /\ [][NextTeardown]_vars

\* ---- the push-to-talk capture unit (PushToTalk, MicSpeakingUI.js) -----------
\* Samples are normalized floats, here in units of 0.0001; every block the
\* script processor delivers is represented by one sample.
Samples == {-20, 0, 5}

\* the silence threshold 0.001, in units of 0.0001
SilenceThreshold == 10
\* the rate of the capture context and the rate of the payload, in Hz
InputRate == 48000
TargetRate == 16000

RECURSIVE SumSq(_)
SumSq(buf) == IF buf = <<>> THEN 0 ELSE Head(buf) * Head(buf) + SumSq(Tail(buf))

RECURSIVE mergeFloat32(_)
\* lib/audio mergeFloat32: the blocks, concatenated in the order captured
mergeFloat32(chunks) ==
  IF chunks = <<>> THEN <<>> ELSE Head(chunks) \o mergeFloat32(Tail(chunks))

\* rms(buf) < 0.001, for a buffer that is not empty:
\* sqrt(sum of squares / n) < threshold
BelowThreshold(buf) ==
  SumSq(buf) < SilenceThreshold * SilenceThreshold * Len(buf)

\* the outcomes of the test "rms(merged) < 0.001": the mean of an empty
\* buffer is 0 / 0, so either outcome is possible for it
SilenceTest(buf) == IF buf = <<>> THEN BOOLEAN ELSE {BelowThreshold(buf)}

Quiet(x) == x * x < SilenceThreshold * SilenceThreshold

RECURSIVE DropLeadingQuiet(_)
DropLeadingQuiet(buf) ==
  IF buf # <<>> /\ Quiet(Head(buf)) THEN DropLeadingQuiet(Tail(buf)) ELSE buf

RECURSIVE DropTrailingQuiet(_)
DropTrailingQuiet(buf) ==
  IF buf # <<>> /\ Quiet(buf[Len(buf)])
    THEN DropTrailingQuiet(SubSeq(buf, 1, Len(buf) - 1))
    ELSE buf

\* the VAD module's trimBuffer: leading and trailing silence removed
trimBuffer(buf) == DropTrailingQuiet(DropLeadingQuiet(buf))

\* lib/audio downsampleFloat32: one sample kept out of every inRate / outRate
downsampleFloat32(buf, inRate, outRate) ==
  LET ratio == inRate \div outRate
      n == (Len(buf) + ratio - 1) \div ratio
  IN [i \in 1..n |-> buf[(i - 1) * ratio + 1]]

\* a float sample as a 16-bit PCM sample
PCM16(x) == IF x < 0 THEN -((-x * 32768) \div 10000) ELSE (x * 32767) \div 10000

\* lib/audio encodeWavPCM16: the payload handed to onSend
encodeWavPCM16(buf, rate) ==
  [sampleRate |-> rate, pcm |-> [i \in 1..Len(buf) |-> PCM16(buf[i])]]

\* the push-to-talk component after its first render, either implementation,
\* connected or not
InitCapture ==
  /\ ReadingInit
  /\ impl \in {"PushToTalk", "MicSpeakingUI"}
  /\ connected \in BOOLEAN
  /\ CaptureIdle
  /\ StreamIdle
  /\ PageInit
  /\ UploadInit
  /\ ChatInit
  /\ QuizInit
  /\ LiveInit

\* the parent connects or disconnects the session (prop connected)
SetConnected ==
  /\ connected' = ~connected
  /\ UNCHANGED <<impl, recording, held, starts, graph, buffersRef, stops,
                 sent, warned>>
  /\ UNCHANGED notCapture

\* startRecording up to its await of getUserMedia (mouse down, touch start);
\* the button is disabled while not connected
pttStartRecording ==
  /\ ~held
  /\ held' = TRUE
  /\ sent' = <<>>
  /\ IF ~connected
       THEN /\ warned' = "[not connected]"
            /\ UNCHANGED starts
       ELSE IF impl = "PushToTalk" /\ recording
         THEN UNCHANGED <<starts, warned>>
         ELSE /\ starts < MaxCalls
              /\ starts' = starts + 1
              /\ UNCHANGED warned
  /\ UNCHANGED <<impl, connected, recording, graph, buffersRef, stops>>
  /\ UNCHANGED notCapture

\* getUserMedia resolves: the capture graph is built and connected
CaptureGranted ==
  /\ starts > 0
  /\ starts' = starts - 1
  /\ graph' = "open"
  /\ buffersRef' = <<>>
  /\ recording' = TRUE
  /\ UNCHANGED <<impl, connected, held, stops, sent, warned>>
  /\ UNCHANGED notCapture

\* getUserMedia rejects
CaptureDenied ==
  /\ starts > 0
  /\ starts' = starts - 1
  /\ warned' = "[microphone error]"
  /\ UNCHANGED <<impl, connected, recording, held, graph, buffersRef, stops,
                 sent>>
  /\ UNCHANGED notCapture

\* proc.onaudioprocess: one block of samples is pushed
onaudioprocess ==
  /\ graph = "open"
  /\ Len(buffersRef) < MaxChunks
  /\ \E x \in Samples : buffersRef' = Append(buffersRef, <<x>>)
  /\ UNCHANGED <<impl, connected, recording, held, starts, graph, stops,
                 sent, warned>>
  /\ UNCHANGED notCapture

\* the invocation at place i has returned
Returned(calls, i) ==
  [j \in 1..(Len(calls) - 1) |-> IF j < i THEN calls[j] ELSE calls[j + 1]]

\* stopRecording up to its await of the context's close(): mouse up or
\* touch end on the held button (leave = FALSE), or the pointer leaving the
\* button (leave = TRUE)
pttStopRecording(leave) ==
  /\ leave \/ held
  /\ held' = FALSE
  /\ IF impl = "PushToTalk" /\ ~recording
       THEN UNCHANGED <<graph, stops>>
       ELSE /\ Len(stops) < MaxCalls
            /\ Len(sent) + Len(stops) < MaxSent
            /\ graph' = IF graph = "open" THEN "closed" ELSE graph
            /\ stops' = Append(stops, [pc |-> "close", merged |-> <<>>])
  /\ UNCHANGED <<impl, connected, recording, starts, buffersRef, sent, warned>>
  /\ UNCHANGED notCapture

\* stopRecording from the close of the context to its await of loadVAD():
\* the tracks are stopped, the blocks merged and buffersRef emptied
StopClosed(i) ==
  /\ i \in 1..Len(stops)
  /\ stops[i].pc = "close"
  /\ stops' = [stops EXCEPT ![i] = [pc |-> "vad",
                                    merged |-> mergeFloat32(buffersRef)]]
  /\ buffersRef' = <<>>
  /\ UNCHANGED <<impl, connected, recording, held, starts, graph, sent, warned>>
  /\ UNCHANGED notCapture

\* loadVAD() resolves to a module that has trimBuffer: trimBuffer is awaited
StopVADLoaded(i) ==
  /\ i \in 1..Len(stops)
  /\ stops[i].pc = "vad"
  /\ stops' = [stops EXCEPT ![i].pc = "trim"]
  /\ UNCHANGED <<impl, connected, recording, held, starts, graph, buffersRef,
                 sent, warned>>
  /\ UNCHANGED notCapture

\* the end of stopRecording: resample, encode, onSend, setRecording(false)
StopSends(i, trimmed) ==
  /\ sent' = Append(sent,
       [merged |-> stops[i].merged,
        payload |-> encodeWavPCM16(
                      downsampleFloat32(trimmed, InputRate, TargetRate),
                      TargetRate)])
  /\ recording' = FALSE
  /\ stops' = Returned(stops, i)
  /\ UNCHANGED warned

\* trimBuffer resolves
StopTrimmed(i) ==
  /\ i \in 1..Len(stops)
  /\ stops[i].pc = "trim"
  /\ StopSends(i, trimBuffer(stops[i].merged))
  /\ UNCHANGED <<impl, connected, held, starts, graph, buffersRef>>
  /\ UNCHANGED notCapture

\* loadVAD() resolves to no module, or loadVAD() or trimBuffer rejects: the
\* energy of the merged buffer is tested
StopFallback(i) ==
  /\ i \in 1..Len(stops)
  /\ stops[i].pc \in {"vad", "trim"}
  /\ \E silent \in SilenceTest(stops[i].merged) :
       IF silent
         THEN /\ warned' = "[discarded: silence]"
              /\ recording' = FALSE
              /\ stops' = Returned(stops, i)
              /\ UNCHANGED sent
         ELSE StopSends(i, stops[i].merged)
  /\ UNCHANGED <<impl, connected, held, starts, graph, buffersRef>>
  /\ UNCHANGED notCapture

NextCapture ==
  \/ SetConnected
  \/ pttStartRecording
  \/ CaptureGranted
  \/ CaptureDenied
  \/ onaudioprocess
  \/ \E leave \in BOOLEAN : pttStopRecording(leave)
  \/ \E i \in 1..MaxCalls : StopClosed(i)
  \/ \E i \in 1..MaxCalls : StopVADLoaded(i)
  \/ \E i \in 1..MaxCalls : StopTrimmed(i)
  \/ \E i \in 1..MaxCalls : StopFallback(i)

SpecCapture == InitCapture /\ [][NextCapture]_vars

\* ---- the streaming variant of ReadingExplanation (WebSocket, part_004) -------
\* Left aside: the speech-synthesis fallback, the logs, the question
\* recorder and the pause / resume of the audio context.

\* the payloads of audio_chunk messages, as byte sequences
StreamChunks == {<<1>>, <<2, 3>>}

\* connectWebSocket is memoized on wsUrl, which never changes: the socket
\* handlers are the ones of the first render, and the playAccumulatedAudio
\* they call reads the audioChunks of that render, the initial state
CapturedAudioChunks == <<>>

RECURSIVE Combined(_)
\* playAccumulatedAudio: the chunks copied one after the other into one array
Combined(chunks) ==
  IF chunks = <<>> THEN <<>> ELSE Head(chunks) \o Combined(Tail(chunks))

\* the slots a new WebSocket can take
FreeSockets(sk) ==
  {i \in 1..MaxSockets : sk[i].state = "none" /\ sk[i].autoStart = 0}

\* connectWebSocket on [sk, ref, ok]: nothing if wsRef holds an OPEN socket,
\* else a new socket, kept in wsRef (ok is FALSE if the model has no slot)
connectWebSocket(r) ==
  IF r.ref # 0 /\ r.sk[r.ref].state = "open"
    THEN r
    ELSE IF FreeSockets(r.sk) = {}
      THEN [r EXCEPT !.ok = FALSE]
      ELSE LET i == CHOOSE j \in FreeSockets(r.sk) :
                      \A k \in FreeSockets(r.sk) : j <= k
           IN [sk |-> [r.sk EXCEPT ![i] = [NoSocket EXCEPT !.state = "connecting"]],
               ref |-> i, ok |-> r.ok]

\* the effects that follow a render with content c, topic t and interactive
\* mode im: the effect on generatedContent (46-52) connects and enables the
\* interactive mode; the effect on isInteractiveMode (489-493) connects, in
\* this render if the mode was enabled and again in the render that follows
\* the enabling
ConnectEffects(r, c, t, u, im, genChanged) ==
  LET gen == c \/ u # 0
      enable == genChanged /\ c /\ ~im
      r1 == IF enable THEN connectWebSocket(r) ELSE r
      r2 == IF im /\ gen /\ t THEN connectWebSocket(r1) ELSE r1
  IN IF enable /\ t THEN connectWebSocket(r2) ELSE r2

\* the slots a new play call can take
FreePlays(pl) == {i \in 1..MaxPlays : pl[i].pc = "free"}

FirstFreePlay(pl) ==
  CHOOSE j \in FreePlays(pl) : \A k \in FreePlays(pl) : j <= k

\* playExistingAudio(url) up to its await of fetch
playExistingAudio(pl, u) ==
  [pl EXCEPT ![FirstFreePlay(pl)] = [NoPlay EXCEPT !.pc = "fetch", !.url = u]]

\* a source that produces sound
Sounding(x) == x.pc = "playing" /\ ~x.ctxClosed

\* the parent passes a new generatedContent (content c, audio_url u), the
\* topic staying what it was at the mount: the effects 46-52, 63-68 and
\* 489-493
PropsChange(c, u) ==
  /\ <<c, u>> # <<hasContent, audioUrl>>
  /\ LET r == ConnectEffects([sk |-> sockets, ref |-> wsRef, ok |-> TRUE],
                             c, hasTopic, u, isInteractiveMode,
                             c # hasContent \/ u # audioUrl)
         newUrl == u # 0 /\ u # audioUrl
     IN /\ r.ok
        /\ newUrl => FreePlays(plays) # {}
        /\ sockets' = r.sk
        /\ wsRef' = r.ref
        /\ plays' = IF newUrl THEN playExistingAudio(plays, u) ELSE plays
  /\ hasContent' = c
  /\ audioUrl' = u
  /\ isInteractiveMode' =
       (isInteractiveMode \/ (c /\ (c # hasContent \/ u # audioUrl)))
  /\ UNCHANGED <<hasTopic, firstContent, isConnected, isStreamingAudio, audioChunks,
                 isPlayingAudio, streamContextRef, streamSourceRef>>
  /\ UNCHANGED notStream

\* the interactive-mode switch (552), and the effect 489-493 that follows
ToggleInteractive ==
  /\ isInteractiveMode' = ~isInteractiveMode
  /\ LET r == IF ~isInteractiveMode /\ (hasContent \/ audioUrl # 0) /\ hasTopic
                THEN connectWebSocket([sk |-> sockets, ref |-> wsRef, ok |-> TRUE])
                ELSE [sk |-> sockets, ref |-> wsRef, ok |-> TRUE]
     IN /\ r.ok
        /\ sockets' = r.sk
        /\ wsRef' = r.ref
  /\ UNCHANGED <<hasContent, hasTopic, audioUrl, firstContent, isConnected,
                 isStreamingAudio, audioChunks, isPlayingAudio,
                 streamContextRef, streamSourceRef, plays>>
  /\ UNCHANGED notStream

\* a socket that still belongs to the mounted component
Live(x) == x.state \in {"connecting", "open"}

\* ws.onopen: the auto-start is scheduled if the first render had content
SocketOpens(i) ==
  /\ sockets[i].state = "connecting"
  /\ sockets' = [sockets EXCEPT ![i].state = "open",
                                ![i].autoStart = IF firstContent THEN 1 ELSE 0]
  /\ isConnected' = TRUE
  /\ UNCHANGED <<hasContent, hasTopic, audioUrl, firstContent,
                 isInteractiveMode, isStreamingAudio, audioChunks,
                 isPlayingAudio, wsRef, streamContextRef, streamSourceRef,
                 plays>>
  /\ UNCHANGED notStream

\* ws.onclose / ws.onerror
SocketCloses(i) ==
  /\ Live(sockets[i])
  /\ sockets' = [sockets EXCEPT ![i].state = "none", ![i].startMsgs = 0]
  /\ wsRef' = IF wsRef = i THEN 0 ELSE wsRef
  /\ isConnected' = FALSE
  /\ UNCHANGED <<hasContent, hasTopic, audioUrl, firstContent,
                 isInteractiveMode, isStreamingAudio, audioChunks,
                 isPlayingAudio, streamContextRef, streamSourceRef,
                 plays>>
  /\ UNCHANGED notStream

\* startInteractiveExplanation: start_explanation is sent on the socket in
\* wsRef if it is OPEN (the messages of a socket are counted up to two)
startInteractiveExplanation(sk, ref) ==
  IF ref # 0 /\ sk[ref].state = "open" /\ sk[ref].startMsgs < 2
    THEN [sk EXCEPT ![ref].startMsgs = @ + 1]
    ELSE sk

\* the 500 ms timer set by ws.onopen fires
AutoStart(i) ==
  /\ sockets[i].autoStart = 1
  /\ sockets' = startInteractiveExplanation(
                  [sockets EXCEPT ![i].autoStart = 0], wsRef)
  /\ UNCHANGED <<hasContent, hasTopic, audioUrl, firstContent,
                 isInteractiveMode, isConnected, isStreamingAudio,
                 audioChunks, isPlayingAudio, wsRef, streamContextRef,
                 streamSourceRef, plays>>
  /\ UNCHANGED notStream

\* the start button (623), enabled while connected
UserStart ==
  /\ isConnected
  /\ sockets' = IF hasContent \/ audioUrl # 0
                  THEN startInteractiveExplanation(sockets, wsRef)
                  ELSE sockets
  /\ UNCHANGED <<hasContent, hasTopic, audioUrl, firstContent,
                 isInteractiveMode, isConnected, isStreamingAudio,
                 audioChunks, isPlayingAudio, wsRef, streamContextRef,
                 streamSourceRef, plays>>
  /\ UNCHANGED notStream

\* ws.onmessage, explanation_start
ExplanationStart(i) ==
  /\ sockets[i].state = "open"
  /\ isStreamingAudio' = TRUE
  /\ audioChunks' = <<>>
  /\ UNCHANGED <<hasContent, hasTopic, audioUrl, firstContent,
                 isInteractiveMode, isConnected, isPlayingAudio, wsRef,
                 streamContextRef, streamSourceRef, sockets, plays>>
  /\ UNCHANGED notStream

\* the state update of the audio_chunk handler: prev => [...prev, audioArray]
AppendChunk_front(prev, chunk) == <<chunk>> \o prev

AppendChunk(prev, chunk) == Append(prev, chunk)

\* ws.onmessage, audio_chunk
AudioChunk(i, chunk) ==
  /\ sockets[i].state = "open"
  /\ Len(audioChunks) < MaxStream
  /\ audioChunks' = AppendChunk(audioChunks, chunk)
  /\ UNCHANGED <<hasContent, hasTopic, audioUrl, firstContent,
                 isInteractiveMode, isConnected, isStreamingAudio,
                 isPlayingAudio, wsRef, streamContextRef, streamSourceRef,
                 sockets, plays>>
  /\ UNCHANGED notStream

\* ws.onmessage, explanation_complete: playAccumulatedAudio up to its await
\* of decodeAudioData, on the chunks its closure holds
ExplanationComplete(i) ==
  /\ sockets[i].state = "open"
  /\ isStreamingAudio' = FALSE
  /\ IF CapturedAudioChunks = <<>>
       THEN UNCHANGED <<plays, streamContextRef>>
       ELSE /\ FreePlays(plays) # {}
            /\ plays' = [plays EXCEPT ![FirstFreePlay(plays)] =
                           [NoPlay EXCEPT !.pc = "decode",
                                          !.bytes = Combined(CapturedAudioChunks)]]
            /\ streamContextRef' = FirstFreePlay(plays)
  /\ UNCHANGED <<hasContent, hasTopic, audioUrl, firstContent,
                 isInteractiveMode, isConnected, audioChunks, isPlayingAudio,
                 wsRef, streamSourceRef, sockets>>
  /\ UNCHANGED notStream

\* playExistingAudio after fetch and arrayBuffer: the context is created and
\* kept in audioContextRef, decodeAudioData is awaited
PlayFetched(p) ==
  /\ plays[p].pc = "fetch"
  /\ plays' = [plays EXCEPT ![p].pc = "decode"]
  /\ streamContextRef' = IF plays[p].orphan THEN streamContextRef ELSE p
  /\ UNCHANGED <<hasContent, hasTopic, audioUrl, firstContent,
                 isInteractiveMode, isConnected, isStreamingAudio,
                 audioChunks, isPlayingAudio, wsRef, streamSourceRef, sockets>>
  /\ UNCHANGED notStream

\* playExistingAudio / playAccumulatedAudio after decodeAudioData: the
\* source is created, kept in audioSourceRef and started
PlayDecoded(p) ==
  /\ plays[p].pc = "decode"
  /\ ~plays[p].ctxClosed
  /\ plays' = [plays EXCEPT ![p].pc = "playing"]
  /\ IF plays[p].orphan
       THEN UNCHANGED <<streamSourceRef, isPlayingAudio>>
       ELSE /\ streamSourceRef' = p
            /\ isPlayingAudio' = TRUE
  /\ UNCHANGED <<hasContent, hasTopic, audioUrl, firstContent,
                 isInteractiveMode, isConnected, isStreamingAudio,
                 audioChunks, wsRef, streamContextRef, sockets>>
  /\ UNCHANGED notStream

\* the catch of playExistingAudio / playAccumulatedAudio: the fetch or the
\* decoding failed
PlayFailed(p) ==
  /\ plays[p].pc \in {"fetch", "decode"}
  /\ plays' = [plays EXCEPT ![p] = NoPlay]
  /\ isPlayingAudio' = IF plays[p].orphan THEN isPlayingAudio ELSE FALSE
  /\ UNCHANGED <<hasContent, hasTopic, audioUrl, firstContent,
                 isInteractiveMode, isConnected, isStreamingAudio,
                 audioChunks, wsRef, streamContextRef, streamSourceRef,
                 sockets>>
  /\ UNCHANGED notStream

\* source.onended, at the end of the audio or after stop()
SourceEnded(p) ==
  /\ plays[p].pc \in {"playing", "stopped"}
  /\ plays' = [plays EXCEPT ![p] = NoPlay]
  /\ IF plays[p].orphan
       THEN UNCHANGED <<isPlayingAudio, streamContextRef, streamSourceRef>>
       ELSE /\ isPlayingAudio' = FALSE
            /\ streamContextRef' = 0
            /\ streamSourceRef' = 0
  /\ UNCHANGED <<hasContent, hasTopic, audioUrl, firstContent,
                 isInteractiveMode, isConnected, isStreamingAudio,
                 audioChunks, wsRef, sockets>>
  /\ UNCHANGED notStream

\* stopAudioPlayback on the play calls: the source in audioSourceRef is
\* stopped, the context in audioContextRef is closed (a source playing in a
\* closed context is silent and gone)
stopAudioPlayback(pl, src, ctx) ==
  [i \in 1..MaxPlays |->
     LET x == pl[i]
         y == IF i = src /\ x.pc = "playing" THEN [x EXCEPT !.pc = "stopped"]
              ELSE x
         z == IF i = ctx /\ y.pc # "free" THEN [y EXCEPT !.ctxClosed = TRUE]
              ELSE y
     IN IF z.pc = "playing" /\ z.ctxClosed THEN NoPlay ELSE z]

\* the stop button: stopExplanation
stopExplanation ==
  /\ plays' = stopAudioPlayback(plays, streamSourceRef, streamContextRef)
  /\ isPlayingAudio' = FALSE
  /\ audioChunks' = <<>>
  /\ UNCHANGED <<hasContent, hasTopic, audioUrl, firstContent,
                 isInteractiveMode, isConnected, isStreamingAudio, wsRef,
                 streamContextRef, streamSourceRef, sockets>>
  /\ UNCHANGED notStream

\* what an unmount leaves of the sockets for the next mount: the cleanup
\* closes the one in wsRef, the others and the pending timers belong to the
\* unmounted component and reach no state of the mounted one
Abandoned(sk, ref) == [i \in 1..MaxSockets |-> NoSocket]

\* the component is unmounted (cleanup 496-506) and mounted again with
\* content c, topic t and audio_url u: fresh state and refs, first effects
Remount(c, t, u) ==
  /\ LET r == ConnectEffects([sk |-> Abandoned(sockets, wsRef), ref |-> 0,
                              ok |-> TRUE], c, t, u, FALSE, TRUE)
         old == [i \in 1..MaxPlays |->
                   IF plays[i].pc = "free" THEN plays[i]
                   ELSE [plays[i] EXCEPT !.orphan = TRUE]]
     IN /\ r.ok
        /\ u # 0 => FreePlays(old) # {}
        /\ sockets' = r.sk
        /\ wsRef' = r.ref
        /\ plays' = IF u # 0 THEN playExistingAudio(old, u) ELSE old
  /\ hasContent' = c
  /\ hasTopic' = t
  /\ audioUrl' = u
  /\ firstContent' = c
  /\ isInteractiveMode' = c
  /\ isConnected' = FALSE
  /\ isStreamingAudio' = FALSE
  /\ audioChunks' = <<>>
  /\ isPlayingAudio' = FALSE
  /\ streamContextRef' = 0
  /\ streamSourceRef' = 0
  /\ UNCHANGED notStream

\* the connection and message side of the component: the generated content
\* carries no audio_url
NextStream ==
  \/ \E c \in BOOLEAN : PropsChange(c, 0)
  \/ ToggleInteractive
  \/ \E i \in 1..MaxSockets : SocketOpens(i)
  \/ \E i \in 1..MaxSockets : SocketCloses(i)
  \/ \E i \in 1..MaxSockets : AutoStart(i)
  \/ UserStart
  \/ \E i \in 1..MaxSockets : ExplanationStart(i)
  \/ \E i \in 1..MaxSockets : \E chunk \in StreamChunks : AudioChunk(i, chunk)
  \/ \E i \in 1..MaxSockets : ExplanationComplete(i)
  \/ stopExplanation
  \/ \E c \in BOOLEAN, t \in BOOLEAN : Remount(c, t, 0)

\* the playback side of the component: the generated content is a saved
\* note, an audio_url and no content to stream
NextPlayback ==
  \/ \E u \in 0..MaxUrls : PropsChange(FALSE, u)
  \/ \E p \in 1..MaxPlays : PlayFetched(p)
  \/ \E p \in 1..MaxPlays : PlayDecoded(p)
  \/ \E p \in 1..MaxPlays : PlayFailed(p)
  \/ \E p \in 1..MaxPlays : SourceEnded(p)
  \/ stopExplanation
  \/ \E u \in 0..MaxUrls : Remount(FALSE, FALSE, u)

InitStream ==
  /\ ReadingInit
  /\ impl = "PushToTalk"
  /\ connected = TRUE
  /\ CaptureIdle
  /\ StreamIdle
  /\ PageInit
  /\ UploadInit
  /\ ChatInit
  /\ QuizInit
  /\ LiveInit

SpecStream == InitStream /\ [][NextStream]_vars

SpecPlayback == InitStream /\ [][NextPlayback]_vars

\* ---- the explain page (app/pdf/[id]/explain/page.js) -----------------------
\* Left aside: the page images and the blob URL of the PDF viewer, and the
\* 401 answer to fetchPDFDetails, which leaves the page.

\* the messages of a failed fetchPDFDetails: status 404, another status that
\* is not OK, a rejected fetch
DetailsErrors == {"PDF not found", "Failed to fetch PDF details",
                  "Failed to fetch"}

\* the messages of a failed generateContent: a response that is not OK, a
\* rejected fetch
GenerationErrors == {"Failed to generate explanation", "Failed to fetch"}

\* what the page renders
View ==
  IF isLoading \/ isGenerating THEN "spinner"
  ELSE IF error # "none" THEN "error"
  ELSE "content"

\* generateContent up to its await of fetch, for the section s of the render
\* that calls it
generateContent(s) ==
  IF generatingRef
    THEN UNCHANGED <<generatedContent, isGenerating, generatingRef, request,
                     requests>>
    ELSE /\ generatingRef' = TRUE
         /\ isGenerating' = TRUE
         /\ generatedContent' = 0
         /\ request' = s
         /\ requests' = requests + 1

\* generateContent, catch: the state the message is put in
Caught_swallowed(m) == error

Caught(m) == m

\* generateContent, finally
GenerateFinally ==
  /\ isGenerating' = FALSE
  /\ generatingRef' = FALSE
  /\ request' = 0

\* fetchPDFDetails resolves with the PDF: setPdf, finally; the effect on
\* [pdf, startPage, endPage, topic] calls generateContent
FetchPDFOk ==
  /\ isLoading
  /\ requests < MaxRequests
  /\ pdf' = TRUE
  /\ isLoading' = FALSE
  /\ generateContent(section)
  /\ UNCHANGED <<section, error>>
  /\ UNCHANGED notPage

\* fetchPDFDetails fails: setError, finally
FetchPDFFailed(m) ==
  /\ isLoading
  /\ error' = m
  /\ isLoading' = FALSE
  /\ UNCHANGED <<section, pdf, generatedContent, isGenerating, generatingRef,
                 request, requests>>
  /\ UNCHANGED notPage

\* the section parameters of the URL change; the effect on
\* [pdf, startPage, endPage, topic] calls generateContent if the PDF is there
SectionChange(s) ==
  /\ s # section
  /\ requests < MaxRequests
  /\ section' = s
  /\ IF pdf
       THEN generateContent(s)
       ELSE UNCHANGED <<generatedContent, isGenerating, generatingRef,
                        request, requests>>
  /\ UNCHANGED <<pdf, isLoading, error>>
  /\ UNCHANGED notPage

\* the generation request is answered with the content
GenerateOk ==
  /\ request # 0
  /\ generatedContent' = request
  /\ GenerateFinally
  /\ UNCHANGED <<section, pdf, isLoading, error, requests>>
  /\ UNCHANGED notPage

\* the generation request fails: catch, finally
GenerateFailed(m) ==
  /\ request # 0
  /\ error' = Caught(m)
  /\ GenerateFinally
  /\ UNCHANGED <<section, pdf, isLoading, generatedContent, requests>>
  /\ UNCHANGED notPage

\* the user reloads the page: the state after the mount, for the section s
\* of the URL
Reload(s) ==
  /\ section' = s
  /\ pdf' = FALSE
  /\ isLoading' = TRUE
  /\ error' = "none"
  /\ generatedContent' = 0
  /\ isGenerating' = FALSE
  /\ generatingRef' = FALSE
  /\ request' = 0
  /\ UNCHANGED requests
  /\ UNCHANGED notPage

NextPage ==
  \/ FetchPDFOk
  \/ \E m \in DetailsErrors : FetchPDFFailed(m)
  \/ \E s \in 1..MaxSections : SectionChange(s)
  \/ GenerateOk
  \/ \E m \in GenerationErrors : GenerateFailed(m)
  \/ \E s \in 1..MaxSections : Reload(s)

SpecPage == Init /\ [][NextPage]_vars

\* ---- the upload form (components/PDFUpload.js) ------------------------------
\* bytes in a megabyte
MB == 1024 * 1024

\* the size above which handleFileSelect refuses a file
SizeLimit == 25 * MB

\* the size limit the documentation and the error message state
StatedLimit == 20 * MB

\* the files the user selects or drops: sizes around the two limits
FileSizes == {1, StatedLimit, StatedLimit + 1, SizeLimit, SizeLimit + 1}

FileTypes == {"application/pdf", "image/png"}

Files == [type : FileTypes, size : FileSizes]

\* the calls of uploadFile that have not returned
InFlight == {u \in 1..MaxUploads : uploads[u].pc # "free"}

\* uploadFile up to its await of uploadPdfToCloudinary
uploadFile(file) ==
  /\ Cardinality(InFlight) + clearTimers < MaxUploads
  /\ LET u == CHOOSE u \in 1..MaxUploads :
                uploads[u].pc = "free"
                  /\ \A v \in 1..MaxUploads : uploads[v].pc = "free" => u <= v
     IN uploads' = [uploads EXCEPT ![u] = [pc |-> "cloudinary", file |-> file]]
  /\ isUploading' = TRUE
  /\ uploadProgress' = 25

\* onChange of the file input, or a drop: handleFileSelect
handleFileSelect(file) ==
  /\ IF file.type # "application/pdf"
       THEN /\ uploadError' = "Please select a PDF file"
            /\ UNCHANGED <<isUploading, uploadProgress, success, uploads>>
       ELSE IF file.size > SizeLimit
         THEN /\ uploadError' = "File size must be less than 20MB"
              /\ UNCHANGED <<isUploading, uploadProgress, success, uploads>>
         ELSE /\ uploadError' = "none"
              /\ success' = FALSE
              /\ uploadFile(file)
  /\ UNCHANGED clearTimers
  /\ UNCHANGED notUpload

\* uploadFile, finally: the call returns and a 3 s timer is set
UploadFinally(u) ==
  /\ uploads' = [uploads EXCEPT ![u] = NoUpload]
  /\ isUploading' = FALSE
  /\ clearTimers' = clearTimers + 1

\* uploadPdfToCloudinary resolves: the request to /pdfs/process is sent
CloudinaryDone(u) ==
  /\ uploads[u].pc = "cloudinary"
  /\ uploads' = [uploads EXCEPT ![u].pc = "process"]
  /\ uploadProgress' = 50
  /\ UNCHANGED <<isUploading, uploadError, success, clearTimers>>
  /\ UNCHANGED notUpload

\* uploadPdfToCloudinary rejects: catch, finally
CloudinaryFailed(u) ==
  /\ uploads[u].pc = "cloudinary"
  /\ uploadError' = "Upload failed"
  /\ UploadFinally(u)
  /\ UNCHANGED <<uploadProgress, success>>
  /\ UNCHANGED notUpload

\* /pdfs/process answers OK
ProcessOk(u) ==
  /\ uploads[u].pc = "process"
  /\ uploadProgress' = 100
  /\ success' = TRUE
  /\ UploadFinally(u)
  /\ UNCHANGED uploadError
  /\ UNCHANGED notUpload

\* /pdfs/process answers with an error, or the fetch rejects: catch, finally
ProcessFailed(u, answered) ==
  /\ uploads[u].pc = "process"
  /\ uploadProgress' = IF answered THEN 75 ELSE uploadProgress
  /\ uploadError' = "Upload failed"
  /\ UploadFinally(u)
  /\ UNCHANGED success
  /\ UNCHANGED notUpload

\* the 3 s timer of uploadFile's finally
ClearTimer ==
  /\ clearTimers > 0
  /\ clearTimers' = clearTimers - 1
  /\ uploadProgress' = 0
  /\ uploadError' = "none"
  /\ success' = FALSE
  /\ UNCHANGED <<isUploading, uploads>>
  /\ UNCHANGED notUpload

NextUpload ==
  \/ \E file \in Files : handleFileSelect(file)
  \/ \E u \in 1..MaxUploads : CloudinaryDone(u)
  \/ \E u \in 1..MaxUploads : CloudinaryFailed(u)
  \/ \E u \in 1..MaxUploads : ProcessOk(u)
  \/ \E u \in 1..MaxUploads, answered \in BOOLEAN : ProcessFailed(u, answered)
  \/ ClearTimer

SpecUpload == Init /\ [][NextUpload]_vars

\* ---- the chat page (app/pdf/[id]/chat/page.js) ----------------------------
\* Left aside: fetchPDFDetails, the flashcard and quiz generation, the tabs
\* other than the index and the reading tab.

ContentTypes == {"read", "explain"}

\* IndexContent asks for a content: handleContentRequest up to its await of
\* fetch.  The index tab stays usable while a request is in flight.
handleContentRequest(type, topic) ==
  /\ issued < MaxContentRequests
  /\ activeTab = "index-content" /\ chatError = "none"
  /\ LET r == [n |-> issued + 1, type |-> type, topic |-> topic]
     IN /\ pending' = pending \cup {r}
        /\ latest' = r
  /\ issued' = issued + 1
  /\ chatIsGenerating' = TRUE
  /\ contentType' = type
  /\ chatGeneratedContent' = 0
  /\ UNCHANGED <<currentTopic, chatError, activeTab>>
  /\ UNCHANGED notChat

\* the response to request r is OK: the content is stored with the topic of
\* the request, the reading tab is shown; finally
ContentOk(r) ==
  /\ r \in pending
  /\ pending' = pending \ {r}
  /\ chatGeneratedContent' = r
  /\ currentTopic' = r.topic
  /\ activeTab' = "reading-explanation"
  /\ chatIsGenerating' = FALSE
  /\ UNCHANGED <<contentType, chatError, latest, issued>>
  /\ UNCHANGED notChat

\* the request r fails: catch, finally
ContentFailed(r) ==
  /\ r \in pending
  /\ pending' = pending \ {r}
  /\ chatError' = "Failed to generate content"
  /\ chatIsGenerating' = FALSE
  /\ UNCHANGED <<chatGeneratedContent, contentType, currentTopic, activeTab,
                 latest, issued>>
  /\ UNCHANGED notChat

\* a note is played from the notes tab: handlePlayNote
handlePlayNote(topic) ==
  /\ activeTab = "notes" /\ chatError = "none"
  /\ chatGeneratedContent' = [n |-> 0, type |-> "explain", topic |-> topic]
  /\ latest' = [n |-> 0, type |-> "explain", topic |-> topic]
  /\ contentType' = "explain"
  /\ currentTopic' = topic
  /\ activeTab' = "reading-explanation"
  /\ UNCHANGED <<chatIsGenerating, chatError, pending, issued>>
  /\ UNCHANGED notChat

\* a click on a tab of the page
SelectTab(tab) ==
  /\ tab # activeTab /\ chatError = "none"
  /\ activeTab' = tab
  /\ UNCHANGED <<chatGeneratedContent, contentType, currentTopic,
                 chatIsGenerating, chatError, pending, latest, issued>>
  /\ UNCHANGED notChat

NextChat ==
  \/ \E type \in ContentTypes, topic \in 1..MaxTopics :
       handleContentRequest(type, topic)
  \/ \E r \in pending : ContentOk(r)
  \/ \E r \in pending : ContentFailed(r)
  \/ \E topic \in 1..MaxTopics : handlePlayNote(topic)
  \/ \E tab \in {"index-content", "reading-explanation", "notes"} :
       SelectTab(tab)

SpecChat == Init /\ [][NextChat]_vars

\* ---- the quiz component (QuizComponent.js) ---------------------------------
\* Left aside: the generation and the loading of quizzes, the option chosen
\* and its correctness. The clock is read at whole seconds, where the
\* division by 1000 of the code is exact.

\* the quiz view is rendered: a quiz is being taken, neither the error view
\* (211) nor the results view (262) replaces it
QuizShown == currentQuiz # 0 /\ ~quizError /\ ~quizCompleted

\* time passes
ClockTick ==
  /\ now < MaxNow * Second
  /\ now' = now + Second
  /\ UNCHANGED <<currentQuiz, currentQuestionIndex, showExplanation,
                 quizResults, quizIsSubmitting, quizError, quizCompleted,
                 startTime, completionTime, submitted, submitPending>>
  /\ UNCHANGED notQuiz

\* the Start Quiz button (351) on a quiz of n questions
startQuiz(n) ==
  /\ currentQuiz = 0 /\ ~quizError /\ ~quizCompleted
  /\ currentQuiz' = n
  /\ currentQuestionIndex' = 0
  /\ showExplanation' = FALSE
  /\ quizResults' = <<>>
  /\ quizCompleted' = FALSE
  /\ startTime' = now
  /\ UNCHANGED <<quizIsSubmitting, quizError, completionTime, now, submitted,
                 submitPending>>
  /\ UNCHANGED notQuiz

\* an option of the question shown is clicked
selectOption ==
  /\ QuizShown
  /\ ~showExplanation
  /\ showExplanation' = TRUE
  /\ quizResults' = Append(quizResults, currentQuestionIndex)
  /\ UNCHANGED <<currentQuiz, currentQuestionIndex, quizIsSubmitting,
                 quizError, quizCompleted, startTime, completionTime, now,
                 submitted, submitPending>>
  /\ UNCHANGED notQuiz

\* the value completeQuiz puts in completion_time: the completionTime of the
\* render the handler was created in
SubmittedTime(state, elapsed) == state

\* completeQuiz up to its await of fetch: setCompletionTime takes effect at
\* the next render, the body is built from the state of this one
completeQuiz ==
  LET elapsed == (now - startTime) \div Second
  IN /\ quizIsSubmitting' = TRUE
     /\ completionTime' = elapsed
     /\ submitted' = [results |-> quizResults,
                      completion_time |-> SubmittedTime(completionTime, elapsed),
                      sentAt |-> now, started |-> startTime,
                      questions |-> currentQuiz]
     /\ submitPending' = TRUE
     /\ UNCHANGED <<currentQuiz, currentQuestionIndex, showExplanation,
                    quizResults, quizError, quizCompleted, startTime, now>>

\* the Next Question / Finish Quiz button (488), shown once the question is
\* answered and disabled while submitting
nextQuestion ==
  /\ QuizShown
  /\ showExplanation
  /\ ~quizIsSubmitting
  /\ IF currentQuestionIndex < currentQuiz - 1
       THEN /\ currentQuestionIndex' = currentQuestionIndex + 1
            /\ showExplanation' = FALSE
            /\ UNCHANGED <<currentQuiz, quizResults, quizIsSubmitting,
                           quizError, quizCompleted, startTime,
                           completionTime, now, submitted, submitPending>>
       ELSE completeQuiz
  /\ UNCHANGED notQuiz

\* the submit request is answered with an ok status
SubmitOk ==
  /\ submitPending
  /\ submitPending' = FALSE
  /\ quizCompleted' = TRUE
  /\ quizIsSubmitting' = FALSE
  /\ UNCHANGED <<currentQuiz, currentQuestionIndex, showExplanation,
                 quizResults, quizError, startTime, completionTime, now,
                 submitted>>
  /\ UNCHANGED notQuiz

\* the submit request fails or is answered with an error status
SubmitFailed ==
  /\ submitPending
  /\ submitPending' = FALSE
  /\ quizError' = TRUE
  /\ quizIsSubmitting' = FALSE
  /\ UNCHANGED <<currentQuiz, currentQuestionIndex, showExplanation,
                 quizResults, quizCompleted, startTime, completionTime, now,
                 submitted>>
  /\ UNCHANGED notQuiz

\* the Retry button of the error view: fetchQuizzes clears the error and
\* loads the list again
Retry ==
  /\ quizError
  /\ quizError' = FALSE
  /\ UNCHANGED <<currentQuiz, currentQuestionIndex, showExplanation,
                 quizResults, quizIsSubmitting, quizCompleted, startTime,
                 completionTime, now, submitted, submitPending>>
  /\ UNCHANGED notQuiz

\* Exit Quiz (397) in the quiz view, Take Again (286) in the results view
resetQuiz ==
  /\ ~quizError
  /\ currentQuiz # 0 \/ quizCompleted
  /\ currentQuiz' = 0
  /\ currentQuestionIndex' = 0
  /\ showExplanation' = FALSE
  /\ quizResults' = <<>>
  /\ quizCompleted' = FALSE
  /\ startTime' = 0
  /\ completionTime' = 0
  /\ UNCHANGED <<quizIsSubmitting, quizError, now, submitted, submitPending>>
  /\ UNCHANGED notQuiz

NextQuiz ==
  \/ ClockTick
  \/ \E n \in 1..MaxQuestions : startQuiz(n)
  \/ selectOption
  \/ nextQuestion
  \/ SubmitOk
  \/ SubmitFailed
  \/ Retry
  \/ resetQuiz

SpecQuiz == Init /\ [][NextQuiz]_vars

\* ---- LiveExplanation and LiveReading (speech synthesis) ---------------------
\* Left aside: the text of the sentences and the highlighting. The parent is
\* taken to set the isReading / isExplaining prop in onStart and to clear it
\* in onStop, and to leave it in onPauseReading. speechSynthesis.cancel()
\* may or may not deliver an end event for the utterance it cancels: a
\* cancelled utterance stays in utterances until its end or its error event.

\* the speech effect (LiveExplanation 23-42, LiveReading 424-444) for the
\* state st of a render: the utterance spoken keeps the index, the sentence
\* list and isPaused of that render in its onend handler
Speak(st, spoken) ==
  IF st.isReading /\ st.sentences > 0 /\ st.index < st.sentences
    THEN spoken \cup {[index |-> st.index, sentences |-> st.sentences,
                       isPaused |-> st.isPaused]}
    ELSE spoken

\* the state of the render that follows a handler
Rendered == [isReading |-> isReading', sentences |-> sentences',
             index |-> currentSentenceIndex', isPaused |-> isPaused']

\* the parent passes a content of n sentences: the sentence list is set and
\* the index reset, then the speech effect runs on the new list
ContentChange(n) ==
  /\ sentences' = n
  /\ currentSentenceIndex' = 0
  /\ UNCHANGED <<component, isReading, isPaused>>
  /\ utterances' = Speak(Rendered, utterances)
  /\ UNCHANGED notLive

\* Start: enabled unless reading and not paused
handleStart ==
  /\ ~(isReading /\ ~isPaused)
  /\ isPaused' = FALSE
  /\ isReading' = TRUE
  /\ UNCHANGED <<component, sentences, currentSentenceIndex>>
  /\ utterances' = IF isReading # isReading' \/ isPaused # isPaused'
                     THEN Speak(Rendered, utterances) ELSE utterances
  /\ UNCHANGED notLive

\* Pause, in LiveReading
handlePause ==
  /\ component = "LiveReading"
  /\ isReading /\ ~isPaused
  /\ isPaused' = TRUE
  /\ UNCHANGED <<component, isReading, sentences, currentSentenceIndex>>
  /\ utterances' = Speak(Rendered, utterances)
  /\ UNCHANGED notLive

\* Resume, in LiveReading
handleResume ==
  /\ component = "LiveReading"
  /\ isReading /\ isPaused
  /\ isPaused' = FALSE
  /\ UNCHANGED <<component, isReading, sentences, currentSentenceIndex>>
  /\ utterances' = Speak(Rendered, utterances)
  /\ UNCHANGED notLive

\* Stop
handleStop ==
  /\ isReading
  /\ isPaused' = FALSE
  /\ currentSentenceIndex' = 0
  /\ isReading' = FALSE
  /\ UNCHANGED <<component, sentences, utterances>>
  /\ UNCHANGED notLive

\* utterance.onend of u: the guard reads the index, the list and isPaused of
\* the render that spoke u, the update adds one to the index of now
onend(u) ==
  /\ u \in utterances
  /\ currentSentenceIndex' =
       IF (component = "LiveReading" => ~u.isPaused)
          /\ u.index < u.sentences - 1
         THEN currentSentenceIndex + 1
         ELSE currentSentenceIndex
  /\ UNCHANGED <<component, isReading, sentences, isPaused>>
  /\ utterances' = IF currentSentenceIndex' # currentSentenceIndex
                     THEN Speak(Rendered, utterances \ {u})
                     ELSE utterances \ {u}
  /\ UNCHANGED notLive

\* utterance.onerror of u: a cancelled utterance ends without an end event
onerror(u) ==
  /\ u \in utterances
  /\ UNCHANGED <<component, isReading, sentences, currentSentenceIndex,
                 isPaused>>
  /\ utterances' = utterances \ {u}
  /\ UNCHANGED notLive

\* the closures an utterance can hold
Utterances ==
  [index : 0..(MaxSentences - 1), sentences : 1..MaxSentences,
   isPaused : BOOLEAN]

NextLive ==
  \/ \E n \in 0..MaxSentences : ContentChange(n)
  \/ handleStart
  \/ handlePause
  \/ handleResume
  \/ handleStop
  \/ \E u \in Utterances : onend(u)
  \/ \E u \in Utterances : onerror(u)

InitLive ==
  /\ ReadingInit
  /\ impl = "PushToTalk"
  /\ connected = TRUE
  /\ CaptureIdle
  /\ StreamIdle
  /\ PageInit
  /\ UploadInit
  /\ ChatInit
  /\ QuizInit
  /\ component \in {"LiveExplanation", "LiveReading"}
  /\ LiveIdle

SpecLive == InitLive /\ [][NextLive]_vars

\* ---- properties -------------------------------------------------------------
\* an answer source has been started and has not ended
QAPlaying == \E e \in Ids : ex[e].stage = "playing"

\* a Q&A exchange is active: its request has been sent and its answer has
\* neither ended nor failed
QAActive == \E e \in Ids : ex[e].stage \in {"fetching", "decoding", "playing"}

\* C1: under every interleaving of toggle, stop, press and release of the ask
\* button and the asynchronous completions, the main audio element is never
\* playing while the answer source is playing.
C1_MutualExclusion == ~(Audible(main) /\ QAPlaying)

\* C2: when the resume timer of an exchange fires for which the main audio
\* was playing at the press of the ask button, the request succeeded, the
\* answer played to its end and the user did nothing else, the main audio is
\* playing afterwards, at the position at which it was paused.
C2_ResumesAfterAnswer ==
  [][\A e \in Ids :
       (ResumeTimer(e, TRUE) /\ ex[e].ask = "playing" /\ ex[e].timers = 1)
         => (Audible(main') /\ main'.currentTime = ex[e].posAtAsk)]_vars

\* C3: when the resume timer of an exchange fires for which the main audio
\* was paused at the press of the ask button (and the user did nothing
\* else), the main audio is still paused afterwards.
C3_StaysPaused ==
  [][\A e \in Ids :
       (ResumeTimer(e, TRUE) /\ ex[e].ask = "paused") => main'.paused]_vars

\* C4: however often the end-of-stream notification of an answer is
\* delivered, the completion logic of the exchange (flags cleared, resume
\* timer scheduled) has run exactly once after the first delivery, and the
\* exchange's timer has invoked play() on the main audio at most once.
C4_CompletesOnce ==
  \A e \in Ids :
    /\ ex[e].completions <= 1
    /\ ex[e].timers + ex[e].resumePlays <= 1
    /\ ex[e].stage = "done" => ex[e].completions = 1
    /\ ex[e].hasEnded <=> ex[e].stage = "done"

C4_DuplicateDelivered ==
  \E e \in Ids : ex[e].duplicate /\ ex[e].completions = 1

\* C5: a resume timer that is still pending when the ask button is pressed
\* again does not start the main audio when it fires.
C5_StaleResumeCancelled ==
  [][\A e \in Ids :
       ResumeTimer(e, FALSE) => (main.paused => main'.paused)]_vars

\* C6: no payload handed to onSend comes from a merged buffer whose RMS
\* energy is below the threshold, whether or not the VAD module loaded.
C6_SilenceNeverSent ==
  \A i \in 1..Len(sent) :
    sent[i].merged # <<>> => ~BelowThreshold(sent[i].merged)

\* C7: when microphone access is rejected for a press made while the main
\* audio was playing, the main audio is playing afterwards and no recording
\* or Q&A flag is left set.
C7_DeniedLeavesPlaying ==
  \A e \in Ids :
    (last = "micDenied" /\ ex[e].stage = "denied" /\ ex[e].ask = "playing")
      => /\ Audible(main)
         /\ ~isRecording /\ ~isPlayingQA /\ ~isTutorResponding

\* C8: while a Q&A exchange is active, whenever the main audio is asked to
\* play - the toggle pressed while the button shows play, play() called by a
\* resume timer, a play event dispatched for a play started outside the
\* component - the main audio is not playing afterwards.
C8_PlayAttemptLeavesSilent ==
  [][QAActive =>
       /\ (togglePlayPause /\ ~isPlayingMain) => ~Audible(main')
       /\ \A e \in Ids : \A own \in BOOLEAN :
            (ResumeTimer(e, own) /\ shouldResumeAfterQA /\ main.paused)
              => ~Audible(main')
       /\ handleAudioPlay => ~Audible(main')]_vars

\* the guards of C8 taken alone: while a Q&A exchange is active the toggle
\* and a play() from a resume timer leave the element as it is, and after
\* the dispatch of a play event the element is paused
PlayGuardsHold ==
  [][QAActive =>
       /\ togglePlayPause => main' = main
       /\ \A e \in Ids : \A own \in BOOLEAN :
            ResumeTimer(e, own) => main' = main
       /\ handleAudioPlay => (main'.paused /\ ~isPlayingMain')]_vars

\* C9: after stop no main audio, no answer audio and no microphone capture
\* is active.
C9_StopReleasesAll ==
  last = "stop" =>
    /\ main.paused
    /\ ~QAPlaying
    /\ \A e \in Ids : ex[e].stage # "recording" /\ ~ex[e].streamOpen

\* C10: pausing the main audio keeps its position and the next play starts
\* from it; stop leaves the main audio paused with the element's position
\* and the displayed position at zero.
C10_PauseKeepsStopResets ==
  [][/\ stopAudio =>
          (main'.paused /\ main'.currentTime = 0 /\ mainAudioPosition' = 0)
     /\ (~main.paused /\ main'.paused /\ ~main'.ended /\ ~stopAudio) =>
          (main'.currentTime = main.currentTime
             /\ mainAudioPosition' = main.currentTime)
     /\ (main.paused /\ ~main.ended /\ ~main'.paused) =>
          main'.currentTime = main.currentTime]_vars

C10_PausedMidway ==
  last = "togglePause" /\ main.paused /\ ~main.ended /\ main.currentTime > 0

\* C11: in the streaming variant every audio_chunk is appended at the end of
\* the chunk buffer, explanation_start empties the buffer, and a decode of
\* streamed audio is begun by no step other than the handling of an
\* explanation_complete message.
C11_BufferedUntilComplete ==
  [][/\ \A i \in 1..MaxSockets : \A chunk \in StreamChunks :
          AudioChunk(i, chunk) => audioChunks' = audioChunks \o <<chunk>>
     /\ \A i \in 1..MaxSockets :
          ExplanationStart(i) => audioChunks' = <<>>
     /\ \A p \in 1..MaxPlays :
          (plays[p].pc = "free" /\ plays'[p].pc # "free" /\ plays'[p].url = 0)
            => \E i \in 1..MaxSockets : ExplanationComplete(i)]_vars

C11_TwoChunksBuffered ==
  /\ isStreamingAudio
  /\ Len(audioChunks) = 2
  /\ audioChunks[1] # audioChunks[2]

\* C19: when explanation_complete is handled with a chunk buffer that is
\* not empty, a decode is begun of the concatenation of the buffered chunks.
C19_PlaysWhatWasReceived ==
  [][\A i \in 1..MaxSockets :
       (ExplanationComplete(i) /\ audioChunks # <<>>)
         => \E p \in 1..MaxPlays :
              /\ plays[p].pc = "free"
              /\ plays'[p].pc = "decode"
              /\ plays'[p].bytes = Combined(audioChunks)]_vars

\* C20: at most one source of the streaming variant produces sound at any
\* time.
C20_OneSource == Cardinality({p \in 1..MaxPlays : Sounding(plays[p])}) <= 1

\* C12: a failed generation request leaves the explain page with an error
\* message set and shown, isGenerating false and generatedContent empty; and
\* while an error is set no generation request is issued unless the section
\* parameters change.
C12_FailedGeneration ==
  [][/\ (\E m \in GenerationErrors : GenerateFailed(m))
          => /\ error' \in GenerationErrors
             /\ View' = "error"
             /\ ~isGenerating'
             /\ generatedContent' = 0
     /\ (error # "none" /\ requests' # requests) => section' # section]_vars

\* a generation request, issued once the PDF was there, has failed
C12_GenerationFailed ==
  /\ pdf /\ requests >= 1 /\ request = 0
  /\ error \in GenerationErrors /\ View = "error" /\ generatedContent = 0

\* C13: once the component is unmounted the main audio is paused, no answer
\* source is playing, no recorder is recording and no microphone stream is
\* open.
C13_TeardownReleasesAll ==
  ~mounted =>
    /\ main.paused
    /\ ~QAPlaying
    /\ \A e \in Ids : ex[e].stage # "recording" /\ ~ex[e].streamOpen

\* C14: a file whose upload has been started is a PDF of at most 20 MB.
C14_UploadedWithinLimit ==
  \A u \in 1..MaxUploads :
    uploads[u].pc # "free" =>
      /\ uploads[u].file.type = "application/pdf"
      /\ uploads[u].file.size <= StatedLimit

\* C15: the payloads handed to onSend since the last press of the
\* push-to-talk button are at most one, and none is handed over as long as
\* no capture has ever been started.
C15_OnePayloadPerCapture ==
  /\ Len(sent) <= 1
  /\ graph = "none" => sent = <<>>

\* C16: isTutorResponding is true exactly while a Q&A request is in flight.
C16_RespondingIffInFlight ==
  isTutorResponding <=> \E e \in Ids : ex[e].stage = "fetching"

\* C18: when the resume timer of an exchange fires with the resume flag set,
\* play() is invoked on the main audio if and only if the element is paused,
\* a playing element is left as it is, and the flag is cleared either way.
C18_ResumeOnlyIfPaused ==
  [][\A e \in Ids :
       (ResumeTimer(e, TRUE) /\ shouldResumeAfterQA)
         => /\ ~shouldResumeAfterQA'
            /\ (ex'[e].resumePlays = ex[e].resumePlays + 1) <=> main.paused
            /\ ex'[e].resumePlays = ex[e].resumePlays <=> ~main.paused
            /\ ~main.paused => main' = main]_vars

\* the resume timer of an exchange has just invoked play() and cleared the flag
C18_Resumed ==
  /\ last = "resumeTimer" /\ ~shouldResumeAfterQA
  /\ \E e \in Ids : ex[e].resumePlays = 1 /\ ex[e].timers = 0

\* C17: while the ask button is held down the main audio is not playing.
C17_SilentWhileAsking == btnDown => ~Audible(main)

\* C21: once the Q&A request of an exchange has been sent, the microphone
\* stream of that exchange is no longer open.
C21_MicReleasedOnRelease ==
  \A e \in Ids : ex[e].stage \in {"fetching", "decoding"} => ~ex[e].streamOpen

\* C22: when the answer audio cannot be decoded, the handling of the failure
\* starts no audio: a main audio that was paused is still paused.
C22_DecodeFailureStartsNothing ==
  [][\A e \in Ids :
       (QADecodeFailed(e) /\ main.paused) => main'.paused]_vars

\* C23: for as long as a Q&A request is in flight the component is in the
\* answering state: isPlayingQA, its ref and isTutorResponding are true.
C23_StuckWhileInFlight ==
  \A e \in Ids :
    ex[e].stage = "fetching" =>
      isPlayingQA /\ isPlayingQARef /\ isTutorResponding

\* the blocking part of C23 alone: the flags that disable the ask button and
\* block the main audio stay set while a request is in flight
InFlightBlocks ==
  \A e \in Ids : ex[e].stage = "fetching" => isPlayingQA /\ isPlayingQARef

\* the generation half of C23: while the generation request is in flight
\* isGenerating and generatingRef are true
GeneratingWhileInFlight == request # 0 => isGenerating /\ generatingRef

\* C24: the failure of a Q&A request leaves isTutorResponding, isPlayingQA,
\* isPlayingQARef and the resume flag false, and the ask button enabled.
C24_FailureClearsFlags ==
  [][\A e \in Ids :
       QAResponseFailed(e)
         => /\ ~isTutorResponding' /\ ~isPlayingQA' /\ ~isPlayingQARef'
            /\ ~shouldResumeAfterQA'
            /\ ex'[e].stage = "failed"]_vars

\* the request of an exchange has failed before any audio context was made
\* for it, and the flags are down
C24_RequestFailed ==
  \E e \in Ids :
    /\ ex[e].stage = "failed" /\ audioContextRef = 0
    /\ ~isPlayingQA /\ ~isTutorResponding /\ ~shouldResumeAfterQA

\* C25: once the ask button is up and every microphone request has been
\* answered, no recorder is recording, the recording flag is false and no
\* microphone stream is held open by a recorder that was not stopped.
C25_NoCaptureAfterEarlyRelease ==
  (~btnDown /\ \A e \in Ids : ex[e].stage # "awaitMic")
     => /\ \A e \in Ids : ex[e].stage # "recording"
        /\ ~isRecording

\* C26: once no generation request is in flight, generatingRef is clear and
\* the explanation the page holds is the one generated for the current
\* section parameters.
C26_ContentOfCurrentSection ==
  request = 0 =>
    /\ ~generatingRef
    /\ generatedContent # 0 => generatedContent = section

\* C27: once no content request is in flight and none has failed, the
\* content, the content type and the topic the chat page shows are those of
\* the request issued last.
C27_LatestRequestShown ==
  (pending = {} /\ chatError = "none" /\ latest.n # 0)
     => /\ chatGeneratedContent = latest
        /\ contentType = latest.type
        /\ currentTopic = latest.topic

\* C28: a mounted streaming component has at most one WebSocket that is
\* connecting or open at a time, and at most one automatic start_explanation
\* is pending or sent for the sockets it opened
C28_OneSocketAtATime ==
  /\ Cardinality({i \in 1..MaxSockets : Live(sockets[i])}) <= 1
  /\ Cardinality({i \in 1..MaxSockets : sockets[i].autoStart = 1}) <= 1

\* C29: the completion_time of a submit request is the time in seconds
\* between startQuiz and the submission, and its results hold exactly one
\* entry per question of the quiz
C29_SubmittedTimeAndResults ==
  submitted # NoSubmission
    => /\ submitted.completion_time
            = (submitted.sentAt - submitted.started) \div Second
       /\ Len(submitted.results) = submitted.questions
       /\ \A q \in 0..(submitted.questions - 1) :
            Cardinality({k \in 1..Len(submitted.results) :
                           submitted.results[k] = q}) = 1

\* C30: whenever the sentence list is not empty the index of the current
\* sentence lies between 0 and the last index of the list, whatever content
\* changes, starts, pauses, resumes, stops and utterance ends came before,
\* the ends of utterances of an earlier content or sentence included
C30_IndexInRange ==
  sentences > 0
    => currentSentenceIndex >= 0 /\ currentSentenceIndex <= sentences - 1
====
